---- MODULE Spec2Model ----
(***************************************************************************)
(* PageOverlay (src/src/App.jsx): highlight boxes over a page preview with *)
(* auto-zoom.  The component's React state (dims, zoomOn), its props (src, *)
(* boxes, boxesAreNormalized), the <img> element it reads, the listeners   *)
(* its effect registers, and the passive effects pending after a commit.   *)
(*                                                                         *)
(* Numbers: img sizes are integers; box fields and everything derived from *)
(* them are exact rationals [n, d] in lowest terms with d > 0.  d = 0      *)
(* encodes the non-finite results of JavaScript arithmetic (n > 0 is       *)
(* Infinity, n < 0 is -Infinity, n = 0 is NaN).                            *)
(*                                                                         *)
(* last, hist and snap record the past: last is the last event; hist tells *)
(* whether the last step called apply ("applied"; "reapplied" when the     *)
(* step before did too and the sizes of the image are the same), toggled   *)
(* Fitted to Zoomed ("zoomed") or toggled straight back ("back"); snap is  *)
(* the state that the toggle to Zoomed, or the repeated event, started in. *)
(*                                                                         *)
(* App (same file): the asks, the speech synthesizer and the recognizer.   *)
(* Spec is PageOverlay under any props, with App at rest; AppSpec is App   *)
(* from its first render, when no PageOverlay is displayed.                *)
(***************************************************************************)
EXTENDS Integers, Sequences, FiniteSets, TLC

VARIABLES mounted, src, boxes, boxesAreNormalized, dims, zoomOn,
          imgCur, imgComplete, imgLoading, vw,
          loadListeners, resizeListeners, pending, last, hist, snap

\* App: its React state, the speech synthesizer, the requests awaiting their
\* response, and the record of what was asked and what arrived
VARIABLES q, loading, sources, lastAnswer, speakEnabled, sttActive,
          speaking, inflight, submitted, answered, arrival

overlayVars == <<mounted, src, boxes, boxesAreNormalized, dims, zoomOn,
                 imgCur, imgComplete, imgLoading, vw,
                 loadListeners, resizeListeners, pending, last, hist, snap>>

appVars == <<q, loading, sources, lastAnswer, speakEnabled, sttActive,
             speaking, inflight, submitted, answered, arrival>>

vars == <<overlayVars, appVars>>

---------------------------------------------------------------------------
(* Rational arithmetic standing for JavaScript numbers *)

Abs(i) == IF i < 0 THEN -i ELSE i

Sign(i) == IF i > 0 THEN 1 ELSE IF i < 0 THEN -1 ELSE 0

RECURSIVE GCD(_, _)
GCD(a, b) == IF b = 0 THEN a ELSE GCD(b, a % b)

Rat(n, d) ==
    IF d = 0 THEN [n |-> Sign(n), d |-> 0]
    ELSE LET g == GCD(Abs(n), Abs(d))
             s == Sign(d)
         IN  [n |-> (s * n) \div g, d |-> (s * d) \div g]

R(i) == [n |-> i, d |-> 1]

IsFinite(a) == a.d # 0

IsNaN(a) == a.d = 0 /\ a.n = 0

RAdd(a, b) ==
    IF IsFinite(a) /\ IsFinite(b) THEN Rat(a.n * b.d + b.n * a.d, a.d * b.d)
    ELSE IF IsFinite(a) THEN b
    ELSE IF IsFinite(b) THEN a
    ELSE IF a.n = b.n THEN a ELSE [n |-> 0, d |-> 0]

RNeg(a) == [n |-> -a.n, d |-> a.d]

RSub(a, b) == RAdd(a, RNeg(b))

\* a.d = 0 or b.d = 0 gives d = 0 and the sign product: Infinity * 0 is NaN
RMul(a, b) == Rat(a.n * b.n, a.d * b.d)

\* x / 0 is Infinity with the sign of x, 0 / 0 is NaN
RDiv(a, b) ==
    IF IsNaN(a) \/ IsNaN(b) THEN [n |-> 0, d |-> 0]
    ELSE IF ~IsFinite(b) THEN (IF IsFinite(a) THEN R(0) ELSE [n |-> 0, d |-> 0])
    ELSE IF b.n = 0 THEN [n |-> Sign(a.n), d |-> 0]
    ELSE Rat(a.n * b.d * Sign(b.n), a.d * Abs(b.n))

RLe(a, b) == a.n * b.d <= b.n * a.d

\* Math.min and Math.max return NaN when an argument is NaN
MathMin(a, b) ==
    IF IsNaN(a) \/ IsNaN(b) THEN [n |-> 0, d |-> 0]
    ELSE IF RLe(a, b) THEN a ELSE b

MathMax(a, b) ==
    IF IsNaN(a) \/ IsNaN(b) THEN [n |-> 0, d |-> 0]
    ELSE IF RLe(a, b) THEN b ELSE a

---------------------------------------------------------------------------
(* Inputs: image resources, container widths and highlight boxes *)

MaxBoxes == 2

Srcs == {"a", "b"}

Widths == {0, 500, 800}

\* img.naturalWidth / img.naturalHeight: 0 while no image is available
naturalWidth(cur) == IF cur = "a" THEN 1000 ELSE IF cur = "b" THEN 600 ELSE 0

naturalHeight(cur) == IF cur = "a" THEN 1400 ELSE IF cur = "b" THEN 450 ELSE 0

\* img.clientWidth / img.clientHeight of a block image styled width: 100%
clientWidth(cur, w) == w

clientHeight(cur, w) ==
    IF naturalWidth(cur) = 0 THEN 0
    ELSE (w * naturalHeight(cur)) \div naturalWidth(cur)

Box(x, y, w, h) == [x |-> x, y |-> y, w |-> w, h |-> h]

Boxes ==
    { Box(R(100), R(200), R(200), R(50)),
      Box(Rat(1, 2), Rat(1, 2), R(0), R(0)),
      Box(R(0), R(0), R(1), R(1)),
      Box(Rat(1, 2), Rat(1, 4), Rat(-1, 4), Rat(1, 8)) }

BoxSeqs == UNION { [1..n -> Boxes] : n \in 0..MaxBoxes }

---------------------------------------------------------------------------
(* PageOverlay *)

MinZoom == 1

MaxZoom == 4

ZeroDims == [naturalW |-> 0, naturalH |-> 0, clientW |-> 0, clientH |-> 0,
             ready |-> FALSE]

\* faulty variant: the overlay always starts zoomed
InitialZoomOnAlways(b) == TRUE

\* useState(Boolean(boxes?.length)) and the effect on [boxes?.length]
InitialZoomOn(b) == Len(b) > 0

hasBox(b) == Len(b) > 0

\* faulty variant: the zoom effect runs only when the sequence grows
lengthGrew(old, new) == Len(new) > Len(old)

\* the dependency list [boxes?.length] of the zoom effect
lengthChanged(old, new) == Len(new) # Len(old)

\* faulty variant: ready looks at the intrinsic size only
applyReadyIntrinsic(cur, w) ==
    [naturalW |-> naturalWidth(cur), naturalH |-> naturalHeight(cur),
     clientW |-> clientWidth(cur, w), clientH |-> clientHeight(cur, w),
     ready |-> (naturalWidth(cur) > 0 /\ naturalHeight(cur) > 0)]

\* the apply closure of the [src] effect
apply(cur, w) ==
    LET naturalW == naturalWidth(cur)
        naturalH == naturalHeight(cur)
        clientW == clientWidth(cur, w)
        clientH == clientHeight(cur, w)
    IN  [naturalW |-> naturalW, naturalH |-> naturalH,
         clientW |-> clientW, clientH |-> clientH,
         ready |-> (naturalW > 0 /\ naturalH > 0 /\ clientW > 0 /\ clientH > 0)]

\* faulty variant: no guard on a zero intrinsic width
scaleXUnguarded(d) == RDiv(R(d.clientW), R(d.naturalW))

scaleX(d) == IF d.naturalW # 0 THEN RDiv(R(d.clientW), R(d.naturalW)) ELSE R(1)

\* faulty variant: the vertical factor is inverted
scaleYInverted(d) ==
    IF d.naturalH # 0 /\ d.clientH # 0
    THEN RDiv(R(d.naturalH), R(d.clientH)) ELSE R(1)

scaleY(d) == IF d.naturalH # 0 THEN RDiv(R(d.clientH), R(d.naturalH)) ELSE R(1)

\* faulty variant: normalized boxes are scaled by the intrinsic size
toPxIntrinsic(b, d, norm) ==
    IF norm
    THEN [x |-> RMul(b.x, R(d.naturalW)), y |-> RMul(b.y, R(d.naturalH)),
          w |-> RMul(b.w, R(d.naturalW)), h |-> RMul(b.h, R(d.naturalH))]
    ELSE [x |-> RMul(b.x, scaleX(d)), y |-> RMul(b.y, scaleY(d)),
          w |-> RMul(b.w, scaleX(d)), h |-> RMul(b.h, scaleY(d))]

toPx(b, d, norm) ==
    IF norm
    THEN [x |-> RMul(b.x, R(d.clientW)), y |-> RMul(b.y, R(d.clientH)),
          w |-> RMul(b.w, R(d.clientW)), h |-> RMul(b.h, R(d.clientH))]
    ELSE [x |-> RMul(b.x, scaleX(d)), y |-> RMul(b.y, scaleY(d)),
          w |-> RMul(b.w, scaleX(d)), h |-> RMul(b.h, scaleY(d))]

\* faulty variant: the upper clamp Math.min(4, ...) is missing
zoomNoCeiling(bpx, d) ==
    MathMax(R(1), MathMin(
        RDiv(R(d.clientW), MathMax(R(1), bpx.w)),
        RDiv(R(d.clientH), MathMax(R(1), bpx.h))))

\* faulty variant: Math.min and Math.max of the clamp are exchanged
zoomClampSwapped(bpx, d) ==
    MathMax(R(4), MathMin(R(1), MathMin(
        RDiv(R(d.clientW), MathMax(R(1), bpx.w)),
        RDiv(R(d.clientH), MathMax(R(1), bpx.h)))))

\* faulty variant: the lower clamp Math.max(1, ...) is missing
zoomNoFloor(bpx, d) ==
    MathMin(R(4), MathMin(
        RDiv(R(d.clientW), MathMax(R(1), bpx.w)),
        RDiv(R(d.clientH), MathMax(R(1), bpx.h))))

zoom(bpx, d) ==
    MathMin(R(MaxZoom), MathMax(R(MinZoom), MathMin(
        RDiv(R(d.clientW), MathMax(R(1), bpx.w)),
        RDiv(R(d.clientH), MathMax(R(1), bpx.h)))))

centroid(bpx) ==
    [x |-> RAdd(bpx.x, RDiv(bpx.w, R(2))), y |-> RAdd(bpx.y, RDiv(bpx.h, R(2)))]

None == [applied |-> FALSE, scale |-> R(1), tx |-> R(0), ty |-> R(0)]

\* faulty variant: the transform is computed without waiting for dims.ready
zoomConditionNoReady(d, z, b) == z /\ Len(b) > 0

\* faulty variant: a box without positive width and height is no zoom target
zoomConditionPositive(d, z, b) ==
    d.ready /\ z /\ Len(b) > 0 /\ b[1].w.n > 0 /\ b[1].h.n > 0

zoomCondition(d, z, b) == d.ready /\ z /\ hasBox(b)

\* translate(calc(50% - cx px), calc(50% - cy px)) scale(zoom): the percentages
\* are taken of the element's own box, elW x elH
transform(d, z, b, norm, elW, elH) ==
    IF zoomCondition(d, z, b)
    THEN LET bpx == toPx(b[1], d, norm)
             c == centroid(bpx)
         IN  [applied |-> TRUE, scale |-> zoom(bpx, d),
              tx |-> RSub(RDiv(R(elW), R(2)), c.x),
              ty |-> RSub(RDiv(R(elH), R(2)), c.y)]
    ELSE None

\* the transform list applied to a point, transform-origin top left:
\* scale first, then translate
applyTransform(t, p) ==
    [x |-> RAdd(RMul(t.scale, p.x), t.tx), y |-> RAdd(RMul(t.scale, p.y), t.ty)]

\* faulty variant: the outlines are drawn in Zoomed too
outlinesAlways(d, z, b, norm) ==
    IF Len(b) > 0 THEN [i \in 1..Len(b) |-> toPx(b[i], d, norm)] ELSE <<>>

outlines(d, z, b, norm) ==
    IF ~z /\ hasBox(b) THEN [i \in 1..Len(b) |-> toPx(b[i], d, norm)] ELSE <<>>

\* faulty variant: the button only ever leaves the zoom
toggleOffOnly(z, b) == IF Len(b) > 0 THEN FALSE ELSE z

\* faulty variant: the zoom button is not disabled without a box
toggleAlways(z, b) == ~z

\* onClick of the zoom button, which is disabled without a box
toggle(z, b) == IF hasBox(b) THEN ~z ELSE z

\* faulty variant: the zoom effect has no dependency list and runs after
\* every commit
zoomEffectEveryCommit(p, z, b) == InitialZoomOn(b)

\* faulty variant: the zoom effect does not run after the mount
zoomEffectNever(p, z, b) == z

\* the zoom effect, which runs after the commits that changed boxes.length
zoomEffect(p, z, b) == IF "zoom" \in p THEN InitialZoomOn(b) ELSE z

\* faulty variant: the cleanup removes nothing
unsubscribeNothing(n) == n

\* the cleanup of the [src] effect: removeEventListener
unsubscribe(n) == IF n > 0 THEN n - 1 ELSE 0

\* the cleanup of the previous [src] effect, then its two addEventListener calls
resubscribe(n) == unsubscribe(n) + 1

\* faulty variant: no recomputation when the image is already complete
subscribeDimsLater(complete, cur, w, d) == d

\* if (img.complete) apply(), when the [src] effect runs
subscribeDims(complete, cur, w, d) == IF complete THEN apply(cur, w) ELSE d

\* faulty variant: a handler that clears a ready Frame and measures it again
\* only on the next event
deliverResetting(n, cur, w, d) ==
    IF n > 0 THEN (IF d.ready THEN ZeroDims ELSE apply(cur, w)) ELSE d

\* a load or resize event, handled by apply when a listener is registered
deliver(n, cur, w, d) == IF n > 0 THEN apply(cur, w) ELSE d

---------------------------------------------------------------------------
(* The rendering of the current state *)

elW == clientWidth(imgCur, vw)

elH == clientHeight(imgCur, vw)

Transform == transform(dims, zoomOn, boxes, boxesAreNormalized, elW, elH)

Outlines == outlines(dims, zoomOn, boxes, boxesAreNormalized)

Render == [transform |-> Transform, outlines |-> Outlines]

\* what an observer keeps of a state to compare a later one with
Snapshot ==
    [render |-> Render, frame |-> dims, zoomed |-> zoomOn,
     listeners |-> <<loadListeners, resizeListeners>>]

NoSnap ==
    [render |-> [transform |-> None, outlines |-> <<>>], frame |-> ZeroDims,
     zoomed |-> FALSE, listeners |-> <<0, 0>>]

---------------------------------------------------------------------------
(* App: asking, speaking and listening.  A question is known by its rank   *)
(* in the order of submission, 1, 2, ...; the response to question i       *)
(* carries answer i and sources i.  0 stands for the empty answer, the     *)
(* empty sources array and the silent synthesizer.  A function created by  *)
(* a render sees the state of that render: an ask in flight keeps the      *)
(* speakEnabled that its say closure was created with.  The chat stream is *)
(* append-only and left out.                                               *)

MaxAsks == 3

Texts == {"", "text"}

Silent == 0

InitialSpeakEnabled == TRUE

NoArrival == [id |-> 0, ttsOn |-> TRUE, mic |-> FALSE, said |-> FALSE]

\* the state of the first render
AppStart ==
    /\ q = ""
    /\ loading = FALSE
    /\ sources = 0
    /\ lastAnswer = 0
    /\ speakEnabled = InitialSpeakEnabled
    /\ sttActive = FALSE
    /\ speaking = Silent
    /\ inflight = {}
    /\ submitted = 0
    /\ answered = {}
    /\ arrival = NoArrival

\* say as created by a render whose speakEnabled was enabled: the utterance
\* the synthesizer is speaking afterwards
say(enabled, text, cur) ==
    IF ~enabled THEN cur
    ELSE IF text = 0 THEN cur
    ELSE text

stopSpeaking(cur) == Silent

\* the response of the backend to question i
apiAsk(i) == [answer |-> i, sources |-> i]

\* handleAsk up to its await, as created by a render whose speakEnabled was
\* enabled; a blank text returns at once
handleAsk(text, enabled) ==
    /\ text # ""
    /\ submitted < MaxAsks
    /\ loading' = TRUE
    /\ sources' = 0
    /\ lastAnswer' = 0
    /\ submitted' = submitted + 1
    /\ inflight' = inflight \cup {[id |-> submitted + 1, say |-> enabled]}

---------------------------------------------------------------------------
(* State machine *)

Mounting(s, b, norm, cached, w) ==
    /\ mounted' = TRUE
    /\ src' = s
    /\ boxes' = b
    /\ boxesAreNormalized' = norm
    /\ dims' = ZeroDims
    /\ zoomOn' = InitialZoomOn(b)
    /\ imgCur' = IF cached THEN s ELSE "none"
    /\ imgComplete' = cached
    /\ imgLoading' = TRUE
    /\ vw' = w
    /\ loadListeners' = 0
    /\ resizeListeners' = 0
    /\ pending' = {"zoom", "sub"}
    /\ last' = "mount"
    /\ hist' = "none"
    /\ snap' = NoSnap
    /\ UNCHANGED appVars

Init ==
    \E s \in Srcs, b \in BoxSeqs, norm \in BOOLEAN, cached \in BOOLEAN, w \in Widths :
        /\ mounted = TRUE
        /\ src = s
        /\ boxes = b
        /\ boxesAreNormalized = norm
        /\ dims = ZeroDims
        /\ zoomOn = InitialZoomOn(b)
        /\ imgCur = IF cached THEN s ELSE "none"
        /\ imgComplete = cached
        /\ imgLoading = TRUE
        /\ vw = w
        /\ loadListeners = 0
        /\ resizeListeners = 0
        /\ pending = {"zoom", "sub"}
        /\ last = "mount"
        /\ hist = "none"
        /\ snap = NoSnap
        /\ AppStart

Mount ==
    /\ ~mounted
    /\ \E s \in Srcs, b \in BoxSeqs, norm \in BOOLEAN, cached \in BOOLEAN :
           Mounting(s, b, norm, cached, vw)

Unmount ==
    /\ mounted
    /\ pending = {}
    /\ mounted' = FALSE
    /\ src' = "a"
    /\ boxes' = <<>>
    /\ boxesAreNormalized' = FALSE
    /\ dims' = ZeroDims
    /\ zoomOn' = FALSE
    /\ imgCur' = "none"
    /\ imgComplete' = FALSE
    /\ imgLoading' = FALSE
    /\ loadListeners' = unsubscribe(loadListeners)
    /\ resizeListeners' = unsubscribe(resizeListeners)
    /\ pending' = {}
    /\ last' = "unmount"
    /\ hist' = "none"
    /\ snap' = NoSnap
    /\ UNCHANGED vw
    /\ UNCHANGED appVars

\* The passive effects React runs after a commit, in declaration order: the
\* zoom effect when boxes.length changed, the subscription effect (cleanup of
\* the previous one first) when src changed, both after the mount.
RunEffects ==
    /\ mounted
    /\ pending # {}
    /\ zoomOn' = zoomEffect(pending, zoomOn, boxes)
    /\ IF "sub" \in pending
       THEN /\ dims' = subscribeDims(imgComplete, imgCur, vw, dims)
            /\ loadListeners' = resubscribe(loadListeners)
            /\ resizeListeners' = resubscribe(resizeListeners)
       ELSE UNCHANGED <<dims, loadListeners, resizeListeners>>
    /\ pending' = {}
    /\ hist' = IF "sub" \in pending /\ imgComplete THEN "applied" ELSE "none"
    /\ snap' = NoSnap
    /\ UNCHANGED <<mounted, src, boxes, boxesAreNormalized, imgCur, imgComplete,
                   imgLoading, vw, last>>
    /\ UNCHANGED appVars

\* The parent renders with a new boxes array, in the units of the document
\* displayed (boxesAreNormalized is given at the mount); React flushes
\* pending effects before it renders again, hence the guard on pending.
RegionsChanged ==
    /\ mounted
    /\ pending = {}
    /\ \E b \in BoxSeqs :
        /\ b # boxes
        /\ boxes' = b
        /\ pending' = IF lengthChanged(boxes, b) THEN {"zoom"} ELSE {}
    /\ last' = "regionsChanged"
    /\ hist' = "none"
    /\ snap' = NoSnap
    /\ UNCHANGED <<mounted, src, boxesAreNormalized, dims, zoomOn, imgCur,
                   imgComplete, imgLoading, vw, loadListeners, resizeListeners>>
    /\ UNCHANGED appVars

\* The parent renders with a new src on the same <img> element.  An image
\* already available completes at once; otherwise the element keeps showing
\* the previous image, with complete = false, until the new one has loaded.
SrcChange ==
    /\ mounted
    /\ pending = {}
    /\ \E s \in Srcs \ {src}, cached \in BOOLEAN :
        /\ src' = s
        /\ imgCur' = IF cached THEN s ELSE imgCur
        /\ imgComplete' = cached
    /\ imgLoading' = TRUE
    /\ pending' = {"sub"}
    /\ last' = "srcChange"
    /\ hist' = "none"
    /\ snap' = NoSnap
    /\ UNCHANGED <<mounted, boxes, boxesAreNormalized, dims, zoomOn, vw,
                   loadListeners, resizeListeners>>
    /\ UNCHANGED appVars

\* The load event of the image of the current src; it may arrive before the
\* effects of the commit have run, when only earlier listeners are registered.
Load ==
    /\ mounted
    /\ imgLoading
    /\ imgCur' = src
    /\ imgComplete' = TRUE
    /\ imgLoading' = FALSE
    /\ dims' = deliver(loadListeners, src, vw, dims)
    /\ last' = "load"
    /\ hist' = IF loadListeners = 0 THEN "none"
               ELSE IF hist \in {"applied", "reapplied"} /\ imgCur = src
               THEN "reapplied" ELSE "applied"
    /\ snap' = IF loadListeners > 0 /\ hist \in {"applied", "reapplied"} /\ imgCur = src
               THEN Snapshot ELSE NoSnap
    /\ UNCHANGED <<mounted, src, boxes, boxesAreNormalized, zoomOn, vw,
                   loadListeners, resizeListeners, pending>>
    /\ UNCHANGED appVars

\* The image fails to load: the element is left broken (natural size 0) and
\* no listener of the component is called.
LoadError ==
    /\ mounted
    /\ imgLoading
    /\ ~imgComplete
    /\ imgCur' = "none"
    /\ imgComplete' = TRUE
    /\ imgLoading' = FALSE
    /\ last' = "error"
    /\ hist' = "none"
    /\ snap' = NoSnap
    /\ UNCHANGED <<mounted, src, boxes, boxesAreNormalized, dims, zoomOn, vw,
                   loadListeners, resizeListeners, pending>>
    /\ UNCHANGED appVars

\* A resize event of the window, whether or not the width of the container
\* changes with it, and whether or not the overlay is still displayed.
Resize ==
    /\ \E w \in Widths :
        /\ vw' = w
        /\ dims' = deliver(resizeListeners, imgCur, w, dims)
        /\ hist' = IF resizeListeners = 0 THEN "none"
                   ELSE IF hist \in {"applied", "reapplied"} /\ w = vw
                   THEN "reapplied" ELSE "applied"
        /\ snap' = IF resizeListeners > 0 /\ hist \in {"applied", "reapplied"} /\ w = vw
                   THEN Snapshot ELSE NoSnap
    /\ last' = "resize"
    /\ UNCHANGED <<mounted, src, boxes, boxesAreNormalized, zoomOn, imgCur,
                   imgComplete, imgLoading, loadListeners, resizeListeners, pending>>
    /\ UNCHANGED appVars

\* A click on the zoom button.
Toggle ==
    /\ mounted
    /\ pending = {}
    /\ zoomOn' = toggle(zoomOn, boxes)
    /\ last' = "toggle"
    /\ IF hasBox(boxes) /\ ~zoomOn
       THEN hist' = "zoomed" /\ snap' = Snapshot
       ELSE IF hist = "zoomed"
       THEN hist' = "back" /\ snap' = snap
       ELSE hist' = "none" /\ snap' = NoSnap
    /\ UNCHANGED <<mounted, src, boxes, boxesAreNormalized, dims, imgCur,
                   imgComplete, imgLoading, vw, loadListeners, resizeListeners, pending>>
    /\ UNCHANGED appVars

Next ==
    \/ Mount
    \/ Unmount
    \/ RunEffects
    \/ RegionsChanged
    \/ SrcChange
    \/ Load
    \/ LoadError
    \/ Resize
    \/ Toggle

Spec == Init /\ [][Next]_vars

---------------------------------------------------------------------------
(* State machine of App *)

\* sources is empty on the first render, so no PageOverlay is displayed
NoOverlay ==
    /\ mounted = FALSE
    /\ src = "a"
    /\ boxes = <<>>
    /\ boxesAreNormalized = FALSE
    /\ dims = ZeroDims
    /\ zoomOn = FALSE
    /\ imgCur = "none"
    /\ imgComplete = FALSE
    /\ imgLoading = FALSE
    /\ vw = 0
    /\ loadListeners = 0
    /\ resizeListeners = 0
    /\ pending = {}
    /\ last = "unmount"
    /\ hist = "none"
    /\ snap = NoSnap

AppInit == AppStart /\ NoOverlay

\* onChange of the input
Type ==
    /\ \E t \in Texts : t # q /\ q' = t
    /\ UNCHANGED <<loading, sources, lastAnswer, speakEnabled, sttActive,
                   speaking, inflight, submitted, answered, arrival>>
    /\ UNCHANGED overlayVars

\* onClick of the Ask button, disabled while loading
AskButton ==
    /\ ~loading
    /\ handleAsk(q, speakEnabled)
    /\ UNCHANGED <<q, speakEnabled, sttActive, speaking, answered, arrival>>
    /\ UNCHANGED overlayVars

\* onKeyDown of the input with the Enter key
AskEnter ==
    /\ handleAsk(q, speakEnabled)
    /\ UNCHANGED <<q, speakEnabled, sttActive, speaking, answered, arrival>>
    /\ UNCHANGED overlayVars

\* the recognizer delivers a transcript to the handler that the mount effect
\* registered, which calls the handleAsk of the first render
onresult ==
    /\ sttActive
    /\ \E text \in Texts :
        /\ q' = text
        /\ handleAsk(text, InitialSpeakEnabled)
    /\ UNCHANGED <<speakEnabled, sttActive, speaking, answered, arrival>>
    /\ UNCHANGED overlayVars

\* the recognizer ends, by itself, after stop() or on an error
onend ==
    /\ sttActive
    /\ sttActive' = FALSE
    /\ UNCHANGED <<q, loading, sources, lastAnswer, speakEnabled, speaking,
                   inflight, submitted, answered, arrival>>
    /\ UNCHANGED overlayVars

\* onClick of the microphone button
toggleMic ==
    /\ IF sttActive
       THEN /\ sttActive' = FALSE
            /\ UNCHANGED speaking
       ELSE /\ speaking' = stopSpeaking(speaking)
            /\ sttActive' = TRUE
    /\ UNCHANGED <<q, loading, sources, lastAnswer, speakEnabled,
                   inflight, submitted, answered, arrival>>
    /\ UNCHANGED overlayVars

\* onClick of the text-to-speech button
ToggleSpeak ==
    /\ speakEnabled' = ~speakEnabled
    /\ speaking' = IF speakEnabled THEN stopSpeaking(speaking) ELSE speaking
    /\ UNCHANGED <<q, loading, sources, lastAnswer, sttActive,
                   inflight, submitted, answered, arrival>>
    /\ UNCHANGED overlayVars

\* the request of an ask in flight resolves: handleAsk after its await
Resolve ==
    /\ \E r \in inflight :
        LET data == apiAsk(r.id) IN
        /\ sources' = data.sources
        /\ lastAnswer' = data.answer
        /\ speaking' = say(r.say, data.answer, speaking)
        /\ inflight' = inflight \ {r}
        /\ answered' = answered \cup {r.id}
        /\ arrival' = [id |-> r.id, ttsOn |-> speakEnabled, mic |-> sttActive,
                       said |-> say(r.say, data.answer, Silent) # Silent]
    /\ loading' = FALSE
    /\ q' = ""
    /\ UNCHANGED <<speakEnabled, sttActive, submitted>>
    /\ UNCHANGED overlayVars

\* the request of an ask in flight fails: the catch and finally of handleAsk
Reject ==
    /\ \E r \in inflight : inflight' = inflight \ {r}
    /\ loading' = FALSE
    /\ q' = ""
    /\ UNCHANGED <<sources, lastAnswer, speakEnabled, sttActive, speaking,
                   submitted, answered, arrival>>
    /\ UNCHANGED overlayVars

\* the synthesizer finishes the utterance
UtteranceEnd ==
    /\ speaking # Silent
    /\ speaking' = Silent
    /\ UNCHANGED <<q, loading, sources, lastAnswer, speakEnabled, sttActive,
                   inflight, submitted, answered, arrival>>
    /\ UNCHANGED overlayVars

AppNext ==
    \/ Type
    \/ AskButton
    \/ AskEnter
    \/ onresult
    \/ onend
    \/ toggleMic
    \/ ToggleSpeak
    \/ Resolve
    \/ Reject
    \/ UtteranceEnd

AppSpec == AppInit /\ [][AppNext]_vars

---------------------------------------------------------------------------
(* Vocabulary of the properties *)

Settled == mounted /\ pending = {}

IsIdentity(t) == t.scale = R(1) /\ t.tx = R(0) /\ t.ty = R(0)

FiniteRect(r) == IsFinite(r.x) /\ IsFinite(r.y) /\ IsFinite(r.w) /\ IsFinite(r.h)

\* an extent as the scale computation counts it: at least one pixel
AtLeastOne(v) == IF v.n <= v.d THEN R(1) ELSE v

\* clamp(min(W / max(1, w), H / max(1, h)), 1, 4), by cross-multiplication
ClampedScale(W, H, bpx) ==
    LET w == AtLeastOne(bpx.w)
        h == AtLeastOne(bpx.h)
        sw == Rat(W * w.d, w.n)
        sh == Rat(H * h.d, h.n)
        s == IF sw.n * sh.d <= sh.n * sw.d THEN sw ELSE sh
    IN  IF s.n < s.d THEN R(1) ELSE IF s.n > 4 * s.d THEN R(4) ELSE s

Degenerate(b) == b.w.n <= 0 \/ b.h.n <= 0

PrimaryPx == toPx(boxes[1], dims, boxesAreNormalized)

---------------------------------------------------------------------------
(* Overlay state machine *)

\* C1: once a replacement of the region sequence has taken effect, the overlay
\* is in the initial state of the new sequence - Zoomed iff it is non-empty -
\* whatever the state and the length of the sequence before.
C1_RegionsChangedResets ==
    (Settled /\ last = "regionsChanged") => (zoomOn = (Len(boxes) > 0))

\* C4: a newly displayed image starts Zoomed iff its region sequence is
\* non-empty, before and after its mount effects have run.
C4_InitialState ==
    (mounted /\ last = "mount") => (zoomOn = (Len(boxes) > 0))

C4_Witness ==
    /\ Settled /\ last = "mount"
    /\ Len(boxes) = MaxBoxes /\ zoomOn /\ dims.ready

\* C5: a toggle flips Fitted and Zoomed when a region exists; without regions
\* it changes nothing and the overlay stays Fitted.
C5_Toggle ==
    [][Toggle => IF Len(boxes) > 0
                 THEN zoomOn' = ~zoomOn
                 ELSE zoomOn' = zoomOn /\ ~zoomOn']_vars

C5_Witness ==
    /\ mounted /\ last = "toggle"
    /\ Len(boxes) > 0 /\ ~zoomOn /\ dims.ready /\ Len(Outlines) = Len(boxes)

\* C6: once regionsChanged with the empty sequence has taken effect the
\* overlay is Fitted, whatever it was before.
C6_EmptyRegionsFitted ==
    (Settled /\ last = "regionsChanged" /\ Len(boxes) = 0) => ~zoomOn

C6_Witness ==
    /\ Settled /\ last = "regionsChanged"
    /\ Len(boxes) = 0 /\ ~zoomOn /\ dims.ready

---------------------------------------------------------------------------
(* Frame *)

\* C2: while the image of the current src has not reported load completion the
\* Frame is not ready, so no transform is computed from earlier dimensions
\* (stated for the states in which the effects of the src change have run).
C2_NotReadyUntilLoad ==
    (Settled /\ ~imgComplete) => (~dims.ready /\ ~Transform.applied)

---------------------------------------------------------------------------
(* Zoom transform and coordinate mapping *)

\* C3: with a Frame that is not ready, or without a primary region, the
\* transform is the identity (scale 1, translation (0, 0)) in either overlay
\* state.
C3_IdentityWhenNotReady ==
    (mounted /\ (~dims.ready \/ Len(boxes) = 0)) => IsIdentity(Transform)

C3_Witness ==
    /\ mounted /\ ~dims.ready /\ dims.clientW > 0
    /\ zoomOn /\ Len(boxes) > 0 /\ ~boxesAreNormalized
    /\ IsIdentity(Transform)

\* C7: the applied transform carries the centroid of the primary region's
\* render rectangle to the viewport centre (renderedWidth/2, renderedHeight/2).
C7_CentroidCentered ==
    (mounted /\ Transform.applied /\ dims = apply(imgCur, vw)) =>
        applyTransform(Transform, centroid(PrimaryPx))
            = [x |-> Rat(dims.clientW, 2), y |-> Rat(dims.clientH, 2)]

\* C8: on a ready Frame the zoom scale of the primary region is
\* min(renderedWidth / max(1, w), renderedHeight / max(1, h)) clamped into
\* [1, 4].
C8_ScaleClamped ==
    (mounted /\ Transform.applied) =>
        /\ Transform.scale = ClampedScale(dims.clientW, dims.clientH, PrimaryPx)
        /\ RLe(R(1), Transform.scale)
        /\ RLe(Transform.scale, R(4))

C8_Witness ==
    /\ mounted /\ Transform.applied /\ ~boxesAreNormalized
    /\ Transform.scale = R(3)

C10_DegenerateExcluded ==
    (mounted /\ Len(boxes) > 0 /\ Degenerate(boxes[1])) =>
        (~Transform.applied /\ IsIdentity(Transform))

\* C10, amended: such a region keeps its zero or negative extent in render
\* pixels and is still the zoom target of a ready Frame in Zoomed: the extent
\* counts as one pixel in the scale, which stays in [1, 4], with finite values.
C10_DegenerateStillZoomed ==
    (mounted /\ Len(boxes) > 0 /\ Degenerate(boxes[1]) /\ dims.ready /\ zoomOn) =>
        /\ Transform.applied
        /\ FiniteRect(PrimaryPx)
        /\ Sign(PrimaryPx.w.n) = Sign(boxes[1].w.n)
        /\ Sign(PrimaryPx.h.n) = Sign(boxes[1].h.n)
        /\ IsFinite(Transform.scale) /\ IsFinite(Transform.tx) /\ IsFinite(Transform.ty)
        /\ Transform.scale = ClampedScale(dims.clientW, dims.clientH,
               [w |-> IF boxes[1].w.n <= 0 THEN R(1) ELSE PrimaryPx.w,
                h |-> IF boxes[1].h.n <= 0 THEN R(1) ELSE PrimaryPx.h])
        /\ RLe(R(1), Transform.scale)
        /\ RLe(Transform.scale, R(4))

C10_Witness ==
    /\ mounted /\ Transform.applied
    /\ boxes[1].w.n < 0 /\ PrimaryPx.w.n < 0
    /\ Transform.scale = R(4) /\ ~IsIdentity(Transform)

---------------------------------------------------------------------------
(* Coordinate mapper, scale examples and the ready flag *)

ZeroSizeBox == Box(Rat(1, 2), Rat(1, 2), R(0), R(0))

FullFrameBox == Box(R(0), R(0), R(1), R(1))

ExampleBox == Box(R(100), R(200), R(200), R(50))

\* the rectangles toPx has computed for the current rendering: the outlines
\* in Fitted, the primary region's rectangle under an applied transform
Mapped ==
    { [box |-> boxes[i], px |-> Outlines[i]] : i \in DOMAIN Outlines }
        \cup (IF Transform.applied
              THEN {[box |-> boxes[1], px |-> PrimaryPx]} ELSE {})

\* C11: the zero-size Normalized primary region {0.5, 0.5, 0, 0} on a ready
\* Frame rendered 800 x 600 is zoomed at scale exactly 4.
C11_ZeroSizeScaleFour ==
    (/\ mounted /\ dims.ready /\ zoomOn /\ boxesAreNormalized
     /\ Len(boxes) > 0 /\ boxes[1] = ZeroSizeBox
     /\ dims.clientW = 800 /\ dims.clientH = 600)
        => (Transform.applied /\ Transform.scale = R(4))

C11_Witness ==
    /\ mounted /\ dims.ready /\ zoomOn /\ boxesAreNormalized
    /\ Len(boxes) > 0 /\ boxes[1] = ZeroSizeBox
    /\ dims.clientW = 800 /\ dims.clientH = 600
    /\ Transform.scale = R(4)

\* C12: the Normalized primary region {0, 0, 1, 1}, covering the whole frame,
\* is zoomed at scale exactly 1 on every ready Frame.
C12_FullFrameScaleOne ==
    (/\ mounted /\ dims.ready /\ zoomOn /\ boxesAreNormalized
     /\ Len(boxes) > 0 /\ boxes[1] = FullFrameBox)
        => (Transform.applied /\ Transform.scale = R(1))

C12_Witness ==
    /\ mounted /\ dims.ready /\ zoomOn /\ boxesAreNormalized
    /\ Len(boxes) > 0 /\ boxes[1] = FullFrameBox
    /\ dims.clientW > dims.naturalW
    /\ Transform.applied /\ Transform.scale = R(1)

C14_NormalizedByRendered ==
    (mounted /\ boxesAreNormalized) =>
        \A m \in Mapped :
            /\ m.px.x = Rat(m.box.x.n * dims.clientW, m.box.x.d)
            /\ m.px.y = Rat(m.box.y.n * dims.clientH, m.box.y.d)
            /\ m.px.w = Rat(m.box.w.n * dims.clientW, m.box.w.d)
            /\ m.px.h = Rat(m.box.h.n * dims.clientH, m.box.h.d)

C14_Witness ==
    /\ mounted /\ boxesAreNormalized /\ dims.ready
    /\ dims.clientW # dims.naturalW
    /\ Len(Outlines) = MaxBoxes
    /\ boxes[1] = ZeroSizeBox
    /\ Outlines[1].x = R(250)

\* C15: the ready flag of the Frame holds exactly when the stored intrinsic
\* and rendered widths and heights are all strictly positive.
C15_ReadyIffPositive ==
    mounted =>
        (dims.ready <=> (/\ dims.naturalW > 0 /\ dims.naturalH > 0
                         /\ dims.clientW > 0 /\ dims.clientH > 0))

C15_Witness ==
    /\ mounted /\ ~dims.ready
    /\ dims.naturalW > 0 /\ dims.naturalH > 0 /\ dims.clientW = 0

---------------------------------------------------------------------------
(* Tracker subscription, rendering contract and idempotence *)

\* the sizes the <img> element has now
FrameIsCurrent ==
    /\ dims.naturalW = naturalWidth(imgCur)
    /\ dims.naturalH = naturalHeight(imgCur)
    /\ dims.clientW = elW
    /\ dims.clientH = elH

\* toPx, written out by cross-multiplication
ExpectedPx(b) ==
    LET fx == IF boxesAreNormalized THEN [n |-> dims.clientW, d |-> 1]
              ELSE IF dims.naturalW = 0 THEN [n |-> 1, d |-> 1]
              ELSE [n |-> dims.clientW, d |-> dims.naturalW]
        fy == IF boxesAreNormalized THEN [n |-> dims.clientH, d |-> 1]
              ELSE IF dims.naturalH = 0 THEN [n |-> 1, d |-> 1]
              ELSE [n |-> dims.clientH, d |-> dims.naturalH]
    IN  [x |-> Rat(b.x.n * fx.n, b.x.d * fx.d), y |-> Rat(b.y.n * fy.n, b.y.d * fy.d),
         w |-> Rat(b.w.n * fx.n, b.w.d * fx.d), h |-> Rat(b.h.n * fy.n, b.h.d * fy.d)]

\* C16: when the image is already complete as the tracker subscribes, on mount
\* or after a src change, the Frame holds the sizes of that image as soon as
\* the effect has run, before any load or resize event.
C16_ImmediateRecompute ==
    (Settled /\ last \in {"mount", "srcChange"} /\ imgComplete) =>
        (FrameIsCurrent /\ imgCur = src)

C16_Witness ==
    /\ Settled /\ last = "srcChange" /\ imgComplete /\ imgLoading
    /\ dims.ready /\ dims.naturalW = naturalWidth(src)

\* C17: an overlay has at most one load listener and one resize listener,
\* exactly one of each once its effects have run and none once it is removed;
\* events after the removal leave its Frame alone.
C17_OneSubscription ==
    /\ loadListeners <= 1
    /\ resizeListeners <= 1
    /\ Settled => (loadListeners = 1 /\ resizeListeners = 1)
    /\ ~mounted => (loadListeners = 0 /\ resizeListeners = 0 /\ dims = ZeroDims)

C17_Witness ==
    /\ ~mounted /\ last = "resize" /\ vw > 0
    /\ resizeListeners = 0 /\ dims = ZeroDims

\* C18: in Fitted the image is untransformed and every region is outlined at
\* its render rectangle; in Zoomed no outline is drawn and the transform is the
\* zoom transform of the primary region (the identity while the Frame is not
\* ready or there is no region).
C18_RenderFollowsState ==
    mounted =>
        /\ ~zoomOn =>
            /\ Transform = None
            /\ DOMAIN Outlines = 1..Len(boxes)
            /\ \A i \in 1..Len(boxes) : Outlines[i] = ExpectedPx(boxes[i])
        /\ zoomOn =>
            /\ Outlines = <<>>
            /\ IF dims.ready /\ Len(boxes) > 0
               THEN LET bpx == ExpectedPx(boxes[1])
                    IN  /\ Transform.applied
                        /\ Transform.scale
                             = ClampedScale(dims.clientW, dims.clientH, bpx)
                        /\ Transform.tx
                             = Rat(elW * bpx.x.d * bpx.w.d
                                     - 2 * bpx.x.n * bpx.w.d - bpx.w.n * bpx.x.d,
                                   2 * bpx.x.d * bpx.w.d)
                        /\ Transform.ty
                             = Rat(elH * bpx.y.d * bpx.h.d
                                     - 2 * bpx.y.n * bpx.h.d - bpx.h.n * bpx.y.d,
                                   2 * bpx.y.d * bpx.h.d)
               ELSE Transform = None

C18_Witness ==
    /\ mounted /\ zoomOn /\ last = "toggle"
    /\ Len(boxes) = MaxBoxes /\ Outlines = <<>>
    /\ Transform.applied /\ Transform.scale = R(4) /\ Transform.tx = R(150)

\* C19: toggling Fitted to Zoomed and straight back, with the regions and the
\* Frame untouched in between, gives the Fitted rendering there was before:
\* the same (identity) transform and the same outlines.
C19_ToggleRoundTrip ==
    /\ (mounted /\ hist = "zoomed") => (zoomOn /\ Outlines = <<>>)
    /\ (mounted /\ hist = "back") =>
          /\ ~zoomOn
          /\ Render = snap.render
          /\ Render.transform = None
          /\ dims = snap.frame

C19_Witness ==
    /\ mounted /\ hist = "back" /\ dims.ready
    /\ Len(snap.render.outlines) = MaxBoxes /\ Outlines = snap.render.outlines

\* C20: a load or resize event that follows a recomputation, with the sizes of
\* the image the same, leaves the Frame, the overlay state, the rendering and
\* the number of listeners as they were.
C20_RecomputeIdempotent ==
    (mounted /\ hist = "reapplied") =>
        /\ dims = snap.frame
        /\ zoomOn = snap.zoomed
        /\ Render = snap.render
        /\ <<loadListeners, resizeListeners>> = snap.listeners
        /\ FrameIsCurrent

C20_Witness ==
    /\ mounted /\ hist = "reapplied" /\ last = "resize"
    /\ dims.ready /\ Transform.applied /\ snap.render.transform.applied

---------------------------------------------------------------------------
(* What changes the overlay state *)

\* the step runs the effects of a commit (the only step that empties pending)
EffectsRun == pending # {} /\ pending' = {}

\* C21: while an overlay is displayed its state changes only in a toggle or
\* in the zoom effect of a commit that changed the regions (or of the mount);
\* a load, a failed load, a resize and a change of src leave it as it was,
\* and none of them schedules the zoom effect.
C21_OnlyToggleOrRegions ==
    [][/\ (mounted /\ mounted' /\ zoomOn' # zoomOn) =>
            (last' = "toggle" \/ (EffectsRun /\ "zoom" \in pending))
       /\ (~EffectsRun /\ last' \in {"load", "error", "resize", "srcChange"}) =>
            (zoomOn' = zoomOn /\ ("zoom" \in pending' => "zoom" \in pending))
       /\ ("zoom" \in pending' /\ "zoom" \notin pending) =>
            last' \in {"mount", "regionsChanged"}]_vars

C21_Witness ==
    /\ Settled /\ last = "srcChange"
    /\ Len(boxes) > 0 /\ ~zoomOn /\ loadListeners = 1

\* C22: once the effects of a commit have run, Zoomed implies a non-empty
\* region sequence.
C22_ZoomedHasRegion ==
    (Settled /\ zoomOn) => Len(boxes) > 0

C22_Witness ==
    /\ Settled /\ zoomOn /\ Len(boxes) = 1
    /\ last = "regionsChanged" /\ dims.ready

---------------------------------------------------------------------------
(* Asking, speaking and listening in App *)

\* C23: the loading flag is true in every state in which at least one ask
\* is in flight, however the asks were started.
C23_LoadingWhileInFlight ==
    inflight # {} => loading

\* C24: once no ask is in flight, and the question submitted last has been
\* answered, the sources and the answer displayed are those of its response.
C24_LatestResponseShown ==
    (inflight = {} /\ submitted > 0 /\ submitted \in answered) =>
        /\ lastAnswer = apiAsk(submitted).answer
        /\ sources = apiAsk(submitted).sources

\* C25: an answer that arrives while text-to-speech is off is not spoken.
C25_SilentWhenOff ==
    (arrival.id # 0 /\ ~arrival.ttsOn) => ~arrival.said

\* C26: in no state is an utterance being spoken while the microphone is
\* active.
C26_NoSpeechWhileListening ==
    ~(sttActive /\ speaking # Silent)

====
